---- MODULE Spec2Model ----
(***************************************************************************)
(* State-machine model of the IoT home-automation controller               *)
(* (src/src/main.py and the sensor / controller modules it drives).        *)
(*                                                                         *)
(* The program is single threaded.  Its position is kept in pc:            *)
(*   startup  : "warmup" -> "wifi" -> "wifi_wait" -> "beep_on"/"beep_off"  *)
(*   run loop : "top" -> "garden" -> "tank" -> "report" -> "sleep" -> "top"*)
(*   shutdown : "cleanup_relays" -> "cleanup_alarm" -> "cleanup_wifi"      *)
(*              -> "done"                                                  *)
(*   an exception other than KeyboardInterrupt leaves the run loop for the *)
(*   handler of the entry point: "fatal"                                   *)
(* Relay and buzzer outputs are kept as the physical levels the code       *)
(* writes (relays are active low: 0 = on, 1 = off).                        *)
(***************************************************************************)
EXTENDS Integers, Sequences, FiniteSets, TLC

\* ------------------------------------------------------------------ config
GAS_THRESHOLD == 400
V_PIN_GAS_LEVEL == 10
V_PIN_TANK_STATUS == 11
V_PIN_LDR_STATUS == 12

\* timeout = 30 in connect_wifi
WifiTimeout == 30
\* beep_pattern(count=2, ...) of __init__
BeepCount == 2
\* "if loop_count % 10 == 0" and "loop_count % 5 == 0" of run
StatusEvery == 10
TelemetryEvery == 5

\* ------------------------------------------------------------------ bounds
\* The control loop is unbounded; the model stops starting ticks after MaxTicks.
MaxTicks == 10
\* ADC samples are drawn from GAS_THRESHOLD - GasSpread .. GAS_THRESHOLD + GasSpread.
GasSpread == 1

GasLevels == (GAS_THRESHOLD - GasSpread)..(GAS_THRESHOLD + GasSpread)
PinLevels == {0, 1}
Appliances == {"light", "fan", "motor", "garden"}
\* The override flags the control loop reads (main.py lines 164 and 177).
AutoAppliances == {"motor", "garden"}

VARIABLES
    MICROPYTHON,        \* build mode: TRUE on the ESP8266, FALSE in simulation
    pc,                 \* position of the program
    connected,          \* HomeAutomationSystem.connected
    wlan_isconnected,   \* what wlan.isconnected() reports
    wlan_active,        \* wlan.active(...)
    timeout,            \* local of connect_wifi (0 while it is not running)
    manual_override,    \* HomeAutomationSystem.manual_override
    light_state, fan_state, motor_state, garden_state,   \* relay levels
    buzzer_state,       \* buzzer level (1 = sounding)
    is_alarming,        \* BuzzerController.is_alarming
    threshold,          \* GasSensor.threshold
    calibration_value,  \* GasSensor.calibration_value
    warmup_complete,    \* GasSensor.warmup_complete
    loop_count,         \* local of run
    beep_i,             \* loop index of beep_pattern
    gas_status,         \* dict returned by GasSensor.get_status
    analog_value,       \* local of is_gas_detected: the sample it compared
    ldr_status,         \* dict returned by LDRSensor.get_status
    tank_status,        \* dict returned by WaterLevelSensor.get_tank_status
    motor_reads,        \* locals of can_run_motor: the two samples it took
    out                 \* what the last step printed / requested

vars == <<MICROPYTHON, pc, connected, wlan_isconnected, wlan_active, timeout,
          manual_override, light_state, fan_state, motor_state, garden_state,
          buzzer_state, is_alarming, threshold, calibration_value,
          warmup_complete, loop_count, beep_i, gas_status, analog_value,
          ldr_status, tank_status, motor_reads, out>>

relayVars == <<light_state, fan_state, motor_state, garden_state>>
buzzerVars == <<buzzer_state, is_alarming>>
wifiVars == <<connected, wlan_isconnected, wlan_active, timeout>>
gasSensorVars == <<threshold, calibration_value, warmup_complete>>
localVars == <<gas_status, analog_value, ldr_status, tank_status, motor_reads>>

\* Values of the handler locals while the handler is not running.
None == [none |-> TRUE]

\* ------------------------------------------------------------------ events
Event(e, p, v) == [ev |-> e, pin |-> p, value |-> v]
\* "Light: ON" / "Light: OFF" and the like, printed by the control_* methods
RelayPrint(name, state) == Event("print_" \o name, 0, IF state THEN 1 ELSE 0)
Count(seq, e) == Cardinality({i \in 1..Len(seq) : seq[i].ev = e})

\* ------------------------------------------------------------------ pure helpers
\* "value = 0 if state else 1" of control_light / fan / motor / garden_light
RelayValue_active_high(state) == IF state THEN 1 ELSE 0
RelayValue(state) == IF state THEN 0 ELSE 1

\* "not self.<x>_state" of RelayController.get_status
RelayLogical(value) == value = 0

get_status == [light  |-> RelayLogical(light_state),
               fan    |-> RelayLogical(fan_state),
               motor  |-> RelayLogical(motor_state),
               garden |-> RelayLogical(garden_state)]

\* GasSensor.is_gas_detected, given the sample read_analog returned
is_gas_detected_ge(sample) == sample >= threshold
is_gas_detected(sample) == sample > threshold

\* LDRSensor.is_dark, given the pin level
is_dark(level) == level = 0

\* WaterLevelSensor.is_overhead_full / is_underground_empty, given the pin level
is_overhead_full(level) == level = 1
is_underground_empty(level) == level = 0

\* WaterLevelSensor.can_run_motor, given the two levels it samples
can_run_motor_or(overhead_level, underground_level) ==
    ~is_overhead_full(overhead_level) \/ ~is_underground_empty(underground_level)
can_run_motor(overhead_level, underground_level) ==
    ~is_overhead_full(overhead_level) /\ ~is_underground_empty(underground_level)

\* send_to_blynk / log_event: what the call does, ending with the value it
\* returns (1 for True, 0 for False).  Offline or simulated it returns False
\* at once; otherwise it issues the request, and when the request raises
\* (ok = FALSE) the except branch prints the error and returns False.
send_to_blynk_ungated(virtual_pin, value, ok) ==
    IF ~MICROPYTHON
      THEN <<Event("return_send_to_blynk", virtual_pin, 0)>>
      ELSE <<Event("http_update", virtual_pin, value)>>
           \o (IF ok THEN <<Event("return_send_to_blynk", virtual_pin, 1)>>
                     ELSE <<Event("print_blynk_update_error", virtual_pin, 0),
                            Event("return_send_to_blynk", virtual_pin, 0)>>)
send_to_blynk(virtual_pin, value, ok) ==
    IF ~connected \/ ~MICROPYTHON
      THEN <<Event("return_send_to_blynk", virtual_pin, 0)>>
      ELSE <<Event("http_update", virtual_pin, value)>>
           \o (IF ok THEN <<Event("return_send_to_blynk", virtual_pin, 1)>>
                     ELSE <<Event("print_blynk_update_error", virtual_pin, 0),
                            Event("return_send_to_blynk", virtual_pin, 0)>>)

log_event(event_code, ok) ==
    IF ~connected \/ ~MICROPYTHON
      THEN <<Event("return_log_event", 0, 0)>>
      ELSE <<Event("http_logEvent_" \o event_code, 0, 0)>>
           \o (IF ok THEN <<Event("return_log_event", 0, 1)>>
                     ELSE <<Event("print_blynk_event_log_error", 0, 0),
                            Event("return_log_event", 0, 0)>>)

\* The outcomes of n consecutive requests (TRUE: answered, FALSE: raised);
\* when no request is issued there is nothing to choose.
Outcomes(n, issued) ==
    IF issued THEN [1..n -> BOOLEAN] ELSE {[i \in 1..n |-> TRUE]}

\* ------------------------------------------------------------------ Init
\* The state after the sensor and controller constructors and the
\* manual_override dictionary of __init__ (main.py lines 43-74).
Init_without_turn_off_all ==
    /\ MICROPYTHON \in BOOLEAN
    /\ pc = "warmup"
    /\ connected = FALSE
    /\ wlan_isconnected \in (IF MICROPYTHON THEN BOOLEAN ELSE {FALSE})
    /\ wlan_active = FALSE
    /\ timeout = 0
    /\ manual_override = [a \in Appliances |-> FALSE]
    /\ light_state = (IF MICROPYTHON THEN 0 ELSE 1)
    /\ fan_state = light_state /\ motor_state = light_state
    /\ garden_state = light_state
    /\ buzzer_state = 0
    /\ is_alarming = FALSE
    /\ threshold = GAS_THRESHOLD
    /\ calibration_value = 0
    /\ warmup_complete = FALSE
    /\ loop_count = 0
    /\ beep_i = 0
    /\ gas_status = None /\ analog_value = None /\ ldr_status = None
    /\ tank_status = None /\ motor_reads = None
    /\ out = <<>>
Init ==
    /\ MICROPYTHON \in BOOLEAN
    /\ pc = "warmup"
    /\ connected = FALSE
    /\ wlan_isconnected \in (IF MICROPYTHON THEN BOOLEAN ELSE {FALSE})
    /\ wlan_active = FALSE
    /\ timeout = 0
    /\ manual_override = [a \in Appliances |-> FALSE]
    /\ light_state = 1 /\ fan_state = 1 /\ motor_state = 1 /\ garden_state = 1
    /\ buzzer_state = 0
    /\ is_alarming = FALSE
    /\ threshold = GAS_THRESHOLD
    /\ calibration_value = 0
    /\ warmup_complete = FALSE
    /\ loop_count = 0
    /\ beep_i = 0
    /\ gas_status = None /\ analog_value = None /\ ldr_status = None
    /\ tank_status = None /\ motor_reads = None
    /\ out = <<>>

\* ------------------------------------------------------------------ controllers
\* RelayController.turn_off_all
turn_off_all_but_motor ==
    /\ light_state' = 1 /\ fan_state' = 1 /\ garden_state' = 1
    /\ UNCHANGED motor_state
turn_off_all ==
    /\ light_state' = 1 /\ fan_state' = 1
    /\ motor_state' = 1 /\ garden_state' = 1

\* RelayController.control_light / control_fan / control_motor / control_garden_light
control_light(state) ==
    /\ light_state' = RelayValue(state)
    /\ UNCHANGED <<fan_state, motor_state, garden_state>>
control_fan_to_light(state) ==
    /\ light_state' = RelayValue(state)
    /\ UNCHANGED <<fan_state, motor_state, garden_state>>
control_fan(state) ==
    /\ fan_state' = RelayValue(state)
    /\ UNCHANGED <<light_state, motor_state, garden_state>>
control_motor(state) ==
    /\ motor_state' = RelayValue(state)
    /\ UNCHANGED <<light_state, fan_state, garden_state>>
control_garden_light(state) ==
    /\ garden_state' = RelayValue(state)
    /\ UNCHANGED <<light_state, fan_state, motor_state>>

\* BuzzerController.alarm_on / alarm_off
alarm_on_no_latch ==
    /\ buzzer_state' = 1
    /\ UNCHANGED is_alarming
alarm_on ==
    /\ buzzer_state' = 1
    /\ is_alarming' = TRUE
alarm_off_keeps_latch ==
    /\ buzzer_state' = 0
    /\ UNCHANGED is_alarming
alarm_off ==
    /\ buzzer_state' = 0
    /\ is_alarming' = FALSE

\* ------------------------------------------------------------------ sensors
\* GasSensor.get_status: read_analog() for 'analog' (first), then
\* is_gas_detected(), which calls read_analog() again (second) and compares
\* that sample with the threshold.
GasSensor_get_status(first, second) ==
    /\ gas_status' = [analog |-> first,
                      detected |-> is_gas_detected(second),
                      warmup_complete |-> warmup_complete]
    /\ analog_value' = second

\* LDRSensor.get_status: is_dark() samples the pin once.
LDRSensor_get_status(level) ==
    ldr_status' = [is_dark |-> is_dark(level)]

\* WaterLevelSensor.get_tank_status: is_overhead_full() and
\* is_underground_empty() for the two reported fields, then can_run_motor(),
\* which samples both switches again.
get_tank_status(o1, u1, o2, u2) ==
    /\ tank_status' = [overhead_full |-> is_overhead_full(o1),
                       underground_empty |-> is_underground_empty(u1),
                       can_run_motor |-> can_run_motor(o2, u2)]
    /\ motor_reads' = [overhead_full |-> is_overhead_full(o2),
                       underground_empty |-> is_underground_empty(u2)]

\* ------------------------------------------------------------------ startup
\* GasSensor.warmup: sleep, then record one sample as the baseline.
warmup_sets_threshold ==
    /\ pc = "warmup"
    /\ \E sample \in GasLevels :
          calibration_value' = sample /\ threshold' = sample
    /\ warmup_complete' = TRUE
    /\ pc' = "wifi"
    /\ UNCHANGED <<MICROPYTHON, wifiVars, manual_override, relayVars, buzzerVars,
                   loop_count, beep_i, localVars, out>>
warmup ==
    /\ pc = "warmup"
    /\ \E sample \in GasLevels : calibration_value' = sample
    /\ warmup_complete' = TRUE
    /\ pc' = "wifi"
    /\ UNCHANGED <<MICROPYTHON, wifiVars, manual_override, relayVars, buzzerVars,
                   threshold, loop_count, beep_i, localVars, out>>

\* __init__ lines 82-88 and connect_wifi up to the wait loop.
connect_wifi ==
    /\ pc = "wifi"
    /\ IF ~MICROPYTHON
         THEN /\ connected' = FALSE
              /\ pc' = "beep_on"
              /\ UNCHANGED <<wlan_active, timeout>>
         ELSE /\ wlan_active' = TRUE
              /\ IF ~wlan_isconnected
                   THEN /\ timeout' = WifiTimeout
                        /\ pc' = "wifi_wait"
                        /\ UNCHANGED connected
                   ELSE /\ connected' = TRUE
                        /\ pc' = "beep_on"
                        /\ UNCHANGED timeout
    /\ UNCHANGED <<MICROPYTHON, wlan_isconnected, manual_override, relayVars,
                   buzzerVars, gasSensorVars, loop_count, beep_i, localVars, out>>

\* One pass of "while not isconnected() and timeout > 0": sleep one second,
\* during which the interface may associate.
connect_wifi_poll ==
    /\ pc = "wifi_wait"
    /\ ~wlan_isconnected /\ timeout > 0
    /\ timeout' = timeout - 1
    /\ wlan_isconnected' \in BOOLEAN
    /\ UNCHANGED <<MICROPYTHON, pc, connected, wlan_active, manual_override,
                   relayVars, buzzerVars, gasSensorVars, loop_count, beep_i,
                   localVars, out>>

\* Loop exit and "if self.wlan.isconnected()" of connect_wifi; the local
\* timeout goes out of scope.
connect_wifi_done_assumes_connected ==
    /\ pc = "wifi_wait"
    /\ ~(~wlan_isconnected /\ timeout > 0)
    /\ connected' = TRUE
    /\ timeout' = 0
    /\ pc' = "beep_on"
    /\ UNCHANGED <<MICROPYTHON, wlan_isconnected, wlan_active,
                   manual_override, relayVars, buzzerVars, gasSensorVars,
                   loop_count, beep_i, localVars, out>>
connect_wifi_done ==
    /\ pc = "wifi_wait"
    /\ ~(~wlan_isconnected /\ timeout > 0)
    /\ connected' = wlan_isconnected
    /\ timeout' = 0
    /\ pc' = "beep_on"
    /\ UNCHANGED <<MICROPYTHON, wlan_isconnected, wlan_active,
                   manual_override, relayVars, buzzerVars, gasSensorVars,
                   loop_count, beep_i, localVars, out>>

\* beep_pattern: "self.alarm_on()" of pass beep_i
beep_pattern_on ==
    /\ pc = "beep_on"
    /\ alarm_on
    /\ pc' = "beep_off"
    /\ UNCHANGED <<MICROPYTHON, wifiVars, manual_override, relayVars,
                   gasSensorVars, loop_count, beep_i, localVars, out>>

\* beep_pattern: "self.alarm_off()" of pass beep_i; after the last pass
\* __init__ returns and run() starts.
beep_pattern_off ==
    /\ pc = "beep_off"
    /\ alarm_off
    /\ beep_i' = beep_i + 1
    /\ pc' = IF beep_i + 1 < BeepCount THEN "beep_on" ELSE "top"
    /\ UNCHANGED <<MICROPYTHON, wifiVars, manual_override, relayVars,
                   gasSensorVars, loop_count, localVars, out>>

\* ------------------------------------------------------------------ control loop
\* handle_gas_detection, given the two ADC samples get_status takes and the
\* outcomes of the two requests it may issue.
handle_gas_detection(first, second, ok) ==
    /\ GasSensor_get_status(first, second)
    /\ IF is_gas_detected(second)
         THEN /\ alarm_on
              /\ out' = (IF ~is_alarming
                           THEN <<Event("print_gas_leakage_detected", 0, first)>>
                           ELSE <<>>)
                        \o <<Event("alarm_on", 0, 0)>>
                        \o (IF connected
                              THEN send_to_blynk(V_PIN_GAS_LEVEL, first, ok[1])
                                   \o log_event("gas_alert", ok[2])
                              ELSE <<>>)
         ELSE IF is_alarming
                THEN /\ alarm_off
                     /\ out' = <<Event("print_gas_returned_to_normal", 0, 0),
                                 Event("alarm_off", 0, 0)>>
                ELSE /\ UNCHANGED buzzerVars
                     /\ out' = <<>>

\* "loop_count += 1" and "self.handle_gas_detection()" of run
run_gas ==
    /\ pc = "top"
    /\ loop_count < MaxTicks
    /\ loop_count' = loop_count + 1
    /\ \E first \in GasLevels, second \in GasLevels :
          \E ok \in Outcomes(2, connected /\ is_gas_detected(second)) :
             handle_gas_detection(first, second, ok)
    /\ pc' = "garden"
    /\ UNCHANGED <<MICROPYTHON, wifiVars, manual_override, relayVars,
                   gasSensorVars, beep_i, ldr_status, tank_status, motor_reads>>

\* handle_garden_light, given the LDR pin level
handle_garden_light_no_override(level) ==
    /\ LDRSensor_get_status(level)
    /\ control_garden_light(is_dark(level))
handle_garden_light_to_light(level) ==
    /\ LDRSensor_get_status(level)
    /\ IF ~manual_override["garden"]
         THEN control_light(is_dark(level))
         ELSE UNCHANGED relayVars
handle_garden_light(level) ==
    /\ LDRSensor_get_status(level)
    /\ IF ~manual_override["garden"]
         THEN IF is_dark(level)
                THEN control_garden_light(TRUE)
                ELSE control_garden_light(FALSE)
         ELSE UNCHANGED relayVars

\* "self.handle_garden_light()" of run
run_garden ==
    /\ pc = "garden"
    /\ \E level \in PinLevels :
          /\ handle_garden_light(level)
          /\ out' = IF manual_override["garden"] THEN <<>>
                    ELSE <<RelayPrint("garden_light", is_dark(level))>>
    /\ gas_status' = None /\ analog_value' = None
    /\ pc' = "tank"
    /\ UNCHANGED <<MICROPYTHON, wifiVars, manual_override, buzzerVars,
                   gasSensorVars, loop_count, beep_i, tank_status, motor_reads>>

\* handle_water_tank, given the four float-switch samples get_tank_status takes
handle_water_tank_gas_interlock(o1, u1, o2, u2) ==
    /\ get_tank_status(o1, u1, o2, u2)
    /\ IF ~manual_override["motor"]
         THEN IF can_run_motor(o2, u2) /\ ~is_alarming
                THEN control_motor(TRUE)
                ELSE control_motor(FALSE)
         ELSE UNCHANGED relayVars
handle_water_tank(o1, u1, o2, u2) ==
    /\ get_tank_status(o1, u1, o2, u2)
    /\ IF ~manual_override["motor"]
         THEN IF can_run_motor(o2, u2)
                THEN control_motor(TRUE)
                ELSE control_motor(FALSE)
         ELSE UNCHANGED relayVars

\* "self.handle_water_tank()" of run
run_tank ==
    /\ pc = "tank"
    /\ \E o1 \in PinLevels, u1 \in PinLevels, o2 \in PinLevels, u2 \in PinLevels :
          /\ handle_water_tank(o1, u1, o2, u2)
          /\ out' = IF manual_override["motor"] THEN <<>>
                    ELSE <<RelayPrint("motor", can_run_motor(o2, u2))>>
    /\ ldr_status' = None
    /\ pc' = "report"
    /\ UNCHANGED <<MICROPYTHON, wifiVars, manual_override, buzzerVars,
                   gasSensorVars, loop_count, beep_i, gas_status, analog_value>>

\* "self.connected and loop_count % 5 == 0" of run
push_due_every_tick == connected
push_due == connected /\ loop_count % TelemetryEvery = 0

\* The samples the metric push reads; none is read when no push is due.
PushSamples(levels) == IF push_due THEN levels ELSE {CHOOSE x \in levels : TRUE}

\* run lines 283-295: the status panel every 10th tick, the metric push every
\* 5th tick when connected (fresh samples: get_gas_level, is_overhead_full,
\* is_dark), given the samples and the outcomes of the three requests.
report(gas_level, o, l, ok) ==
    (IF loop_count % StatusEvery = 0
       THEN <<Event("print_system_status", 0, 0)>>
       ELSE <<>>)
    \o (IF push_due
          THEN send_to_blynk(V_PIN_GAS_LEVEL, gas_level, ok[1])
               \o send_to_blynk(V_PIN_TANK_STATUS,
                                IF is_overhead_full(o) THEN 1 ELSE 0, ok[2])
               \o send_to_blynk(V_PIN_LDR_STATUS,
                                IF is_dark(l) THEN 0 ELSE 1, ok[3])
          ELSE <<>>)

\* A request that raised inside send_to_blynk / log_event.
TelemetryFailed(seq) ==
    Count(seq, "print_blynk_update_error")
    + Count(seq, "print_blynk_event_log_error") > 0

run_report_raises ==
    /\ pc = "report"
    /\ \E gas_level \in PushSamples(GasLevels), o \in PushSamples(PinLevels),
          l \in PushSamples(PinLevels), ok \in Outcomes(3, push_due) :
          /\ out' = report(gas_level, o, l, ok)
          /\ pc' = IF TelemetryFailed(report(gas_level, o, l, ok))
                     THEN "fatal" ELSE "sleep"
    /\ tank_status' = None /\ motor_reads' = None
    /\ UNCHANGED <<MICROPYTHON, wifiVars, manual_override, relayVars, buzzerVars,
                   gasSensorVars, loop_count, beep_i, gas_status, analog_value,
                   ldr_status>>
run_report ==
    /\ pc = "report"
    /\ \E gas_level \in PushSamples(GasLevels), o \in PushSamples(PinLevels),
          l \in PushSamples(PinLevels), ok \in Outcomes(3, push_due) :
          out' = report(gas_level, o, l, ok)
    /\ tank_status' = None /\ motor_reads' = None
    /\ pc' = "sleep"
    /\ UNCHANGED <<MICROPYTHON, wifiVars, manual_override, relayVars, buzzerVars,
                   gasSensorVars, loop_count, beep_i, gas_status, analog_value,
                   ldr_status>>

\* "time.sleep(1)" of run, back to the top of "while True"
run_sleep ==
    /\ pc = "sleep"
    /\ pc' = "top"
    /\ out' = <<>>
    /\ UNCHANGED <<MICROPYTHON, wifiVars, manual_override, relayVars, buzzerVars,
                   gasSensorVars, loop_count, beep_i, localVars>>

\* ------------------------------------------------------------------ manual command channel
\* A manual command arriving between two ticks: one of the relay's control_*
\* methods called with a logical state; the method prints the state it was
\* given.
manual_control ==
    /\ pc = "top"
    /\ \E state \in BOOLEAN :
          \/ control_light(state) /\ out' = <<RelayPrint("light", state)>>
          \/ control_fan(state) /\ out' = <<RelayPrint("fan", state)>>
          \/ control_motor(state) /\ out' = <<RelayPrint("motor", state)>>
          \/ control_garden_light(state)
                /\ out' = <<RelayPrint("garden_light", state)>>
    /\ UNCHANGED <<MICROPYTHON, pc, wifiVars, manual_override, buzzerVars,
                   gasSensorVars, loop_count, beep_i, localVars>>

\* A manual command arriving between two ticks that sets or clears the
\* override flag of an automatically driven appliance.
set_manual_override ==
    /\ pc = "top"
    /\ \E a \in AutoAppliances, flag \in BOOLEAN :
          manual_override' = [manual_override EXCEPT ![a] = flag]
    /\ UNCHANGED <<MICROPYTHON, pc, wifiVars, relayVars, buzzerVars,
                   gasSensorVars, loop_count, beep_i, localVars, out>>

\* ------------------------------------------------------------------ shutdown
LoopPcs == {"top", "garden", "tank", "report", "sleep"}

\* KeyboardInterrupt raised inside the try block of run: the except block
\* prints the shutdown banner and calls cleanup.
KeyboardInterrupt_no_cleanup ==
    /\ pc \in LoopPcs
    /\ pc' = "done"
    /\ gas_status' = None /\ analog_value' = None /\ ldr_status' = None
    /\ tank_status' = None /\ motor_reads' = None
    /\ out' = <<Event("print_shutdown_initiated", 0, 0)>>
    /\ UNCHANGED <<MICROPYTHON, wifiVars, manual_override, relayVars, buzzerVars,
                   gasSensorVars, loop_count, beep_i>>
KeyboardInterrupt ==
    /\ pc \in LoopPcs
    /\ pc' = "cleanup_relays"
    /\ gas_status' = None /\ analog_value' = None /\ ldr_status' = None
    /\ tank_status' = None /\ motor_reads' = None
    /\ out' = <<Event("print_shutdown_initiated", 0, 0)>>
    /\ UNCHANGED <<MICROPYTHON, wifiVars, manual_override, relayVars, buzzerVars,
                   gasSensorVars, loop_count, beep_i>>

\* cleanup: "self.relay.turn_off_all()"
cleanup_relays ==
    /\ pc = "cleanup_relays"
    /\ turn_off_all
    /\ out' = out \o <<Event("turn_off_all", 0, 0)>>
    /\ pc' = "cleanup_alarm"
    /\ UNCHANGED <<MICROPYTHON, wifiVars, manual_override, buzzerVars,
                   gasSensorVars, loop_count, beep_i, localVars>>

\* cleanup: "self.buzzer.alarm_off()"
cleanup_alarm ==
    /\ pc = "cleanup_alarm"
    /\ alarm_off
    /\ out' = out \o <<Event("alarm_off", 0, 0)>>
    /\ pc' = "cleanup_wifi"
    /\ UNCHANGED <<MICROPYTHON, wifiVars, manual_override, relayVars,
                   gasSensorVars, loop_count, beep_i, localVars>>

\* cleanup: "if MICROPYTHON and self.wlan: self.wlan.active(False)"
cleanup_wifi ==
    /\ pc = "cleanup_wifi"
    /\ wlan_active' = IF MICROPYTHON THEN FALSE ELSE wlan_active
    /\ out' = out \o (IF MICROPYTHON THEN <<Event("wlan_active_false", 0, 0)>>
                                      ELSE <<>>)
                  \o <<Event("print_shutdown_complete", 0, 0)>>
    /\ pc' = "done"
    /\ UNCHANGED <<MICROPYTHON, connected, wlan_isconnected, timeout,
                   manual_override, relayVars, buzzerVars, gasSensorVars,
                   loop_count, beep_i, localVars>>

\* ------------------------------------------------------------------ exceptions
\* A hardware access of a tick (a sensor read or a Pin write of the gas, garden,
\* tank or report step) raises.  run catches KeyboardInterrupt only, so the
\* exception leaves run before the step changes anything and reaches
\* "except Exception" of the entry point, which prints it; the program ends.
tick_exception ==
    /\ MICROPYTHON
    /\ pc \in {"top", "garden", "tank", "report"}
    /\ pc' = "fatal"
    /\ gas_status' = None /\ analog_value' = None /\ ldr_status' = None
    /\ tank_status' = None /\ motor_reads' = None
    /\ out' = <<Event("print_fatal_error", 0, 0)>>
    /\ UNCHANGED <<MICROPYTHON, wifiVars, manual_override, relayVars, buzzerVars,
                   gasSensorVars, loop_count, beep_i>>

\* KeyboardInterrupt raised while __init__ runs (in the sleep of the warmup, of
\* the WiFi wait or of the beep pattern).  __init__ is called inside the entry
\* point's try block, whose only handler is "except Exception"; KeyboardInterrupt
\* is not an Exception, so nothing handles it and the program ends where it is.
StartupPcs == {"warmup", "wifi", "wifi_wait", "beep_on", "beep_off"}

startup_interrupt ==
    /\ pc \in StartupPcs
    /\ pc' = "interrupted"
    /\ timeout' = 0
    /\ UNCHANGED <<MICROPYTHON, connected, wlan_isconnected, wlan_active,
                   manual_override, relayVars, buzzerVars, gasSensorVars,
                   loop_count, beep_i, localVars, out>>

\* ------------------------------------------------------------------ specification
Next ==
    \/ warmup
    \/ connect_wifi
    \/ connect_wifi_poll
    \/ connect_wifi_done
    \/ beep_pattern_on
    \/ beep_pattern_off
    \/ run_gas
    \/ run_garden
    \/ run_tank
    \/ run_report
    \/ run_sleep
    \/ manual_control
    \/ set_manual_override
    \/ KeyboardInterrupt
    \/ startup_interrupt
    \/ tick_exception
    \/ cleanup_relays
    \/ cleanup_alarm
    \/ cleanup_wifi

Spec == Init /\ [][Next]_vars

\* ------------------------------------------------------------------ claims
\* A step of the control loop (run_gas, run_garden, run_tank, run_report,
\* run_sleep): manual commands keep pc at "top".
LoopStep == pc \in LoopPcs /\ pc' \in LoopPcs /\ pc' # pc
GasStep == pc = "top" /\ pc' = "garden"
GardenStep == pc = "garden" /\ pc' = "tank"
TankStep == pc = "tank" /\ pc' = "report"

\* The requests and prints that announce detected gas.
GasDetectedEvents(seq) ==
    Count(seq, "print_gas_leakage_detected")
    + Count(seq, "http_update") + Count(seq, "http_logEvent_gas_alert")

\* C1: with the motor override flag false, right after handle_water_tank the
\* motor relay is logically on if and only if the float-switch samples the
\* motor decision took show overhead not full and underground not empty.
C1_MotorIffTanksAllow ==
    (pc = "report" /\ ~manual_override["motor"])
        => (get_status.motor <=>
              (~motor_reads.overhead_full /\ ~motor_reads.underground_empty))

\* C1 witness: overhead full, underground has water, override off, the alarm
\* sounding and the garden light on, and the motor is off.
C1_Witness ==
    /\ pc = "report" /\ ~manual_override["motor"]
    /\ motor_reads.overhead_full /\ ~motor_reads.underground_empty
    /\ is_alarming /\ get_status.garden
    /\ ~get_status.motor

\* C2: after the tank handling of every tick the motor relay is on only if the
\* tank samples of that tick show overhead not full and underground not empty,
\* also when the motor override flag is set.
C2_MotorNeverUnsafe ==
    pc = "report"
        => (get_status.motor =>
              (~motor_reads.overhead_full /\ ~motor_reads.underground_empty))

\* C3: right after handle_gas_detection the buzzer is on if and only if the
\* sample the detection compared is strictly greater than the threshold.
C3_BuzzerIffAboveThreshold ==
    pc = "garden" => ((buzzer_state = 1) <=> (analog_value > threshold))

\* C3 witness: a sample exactly equal to the threshold silences an alarm that
\* was on.
C3_Witness ==
    /\ pc = "garden" /\ analog_value = threshold
    /\ buzzer_state = 0
    /\ Count(out, "alarm_off") = 1

\* C4: a gas handling step that starts with the alarm already on emits no
\* gas-detected event of any kind (no console alert, no telemetry push, no
\* gas_alert log event).
C4_NoEventWhileAlarming ==
    [][(GasStep /\ is_alarming) => GasDetectedEvents(out') = 0]_vars

\* C5: a gas handling step whose reading shows no gas emits exactly one
\* gas-cleared event and turns latch and buzzer off when the alarm was on,
\* and emits no gas-cleared event and does not call alarm_off when it was off.
C5_ClearedExactlyOnce ==
    [][(GasStep /\ ~gas_status'.detected)
          => IF is_alarming
               THEN /\ Count(out', "print_gas_returned_to_normal") = 1
                    /\ ~is_alarming' /\ buzzer_state' = 0
               ELSE /\ Count(out', "print_gas_returned_to_normal") = 0
                    /\ Count(out', "alarm_off") = 0
                    /\ ~is_alarming' /\ buzzer_state' = buzzer_state]_vars

\* C5 witness: a clearing tick has just run.
C5_Witness ==
    /\ pc = "garden" /\ ~gas_status.detected
    /\ Count(out, "print_gas_returned_to_normal") = 1
    /\ Count(out, "alarm_off") = 1
    /\ ~is_alarming /\ buzzer_state = 0

\* C6: over the whole run, is_alarming goes from false to true only in a gas
\* handling step that detected gas, and from true to false only in a gas
\* handling step whose reading shows no gas.
C6_LatchOnlyByGasStep ==
    [][/\ (~is_alarming /\ is_alarming') => (GasStep /\ gas_status'.detected)
       /\ (is_alarming /\ ~is_alarming') => (GasStep /\ ~gas_status'.detected)]_vars

\* C7: with the garden override flag false, right after handle_garden_light
\* the garden relay is logically on exactly when the tick read dark.
C7_GardenEqualsIsDark ==
    (pc = "tank" /\ ~manual_override["garden"])
        => (get_status.garden <=> ldr_status.is_dark)

\* C7 witness: dark was read and the garden light is on.
C7_Witness ==
    /\ pc = "tank" /\ ~manual_override["garden"]
    /\ ldr_status.is_dark /\ get_status.garden

\* C8: no step of the control loop changes the garden relay while the garden
\* override flag is set, nor the motor relay while the motor override flag is
\* set.
C8_OverrideFreezesRelay ==
    [][LoopStep
          => /\ manual_override["garden"] => garden_state' = garden_state
             /\ manual_override["motor"] => motor_state' = motor_state]_vars

\* C8 witness: the motor override is set, the tank handling has just read a
\* full overhead tank and the manually started motor is still on.
C8_Witness ==
    /\ pc = "report" /\ manual_override["motor"]
    /\ tank_status.overhead_full /\ motor_reads.overhead_full
    /\ get_status.motor

\* C9: no step of the control loop changes the room-light or the fan relay;
\* they change only in a manual command or in turn_off_all of the shutdown.
C9_LightFanManualOnly ==
    [][/\ LoopStep => UNCHANGED <<light_state, fan_state>>
       /\ (light_state' # light_state \/ fan_state' # fan_state)
             => ((pc = "top" /\ pc' = "top") \/ pc = "cleanup_relays")]_vars

\* C9 witness: a tick has completed with the light on and the fan off, as the
\* manual commands left them, whatever the tick read.
C9_Witness ==
    /\ pc = "sleep" /\ get_status.light /\ ~get_status.fan
    /\ is_alarming /\ manual_override["garden"]

\* C10: once cleanup has run its relay and alarm steps, all four appliances
\* report off, the buzzer output is off and is_alarming is false.
C10_ShutdownAllOff ==
    pc \in {"cleanup_wifi", "done"}
        => /\ get_status = [light |-> FALSE, fan |-> FALSE,
                            motor |-> FALSE, garden |-> FALSE]
           /\ buzzer_state = 0
           /\ ~is_alarming

\* C10 witness: the shutdown has finished after at least one tick in a run in
\* which the motor had been put under manual override.
C10_Witness ==
    /\ pc = "done" /\ loop_count > 0 /\ manual_override["motor"]
    /\ ~get_status.motor /\ ~get_status.light /\ buzzer_state = 0

\* C11: an interrupt taken anywhere in the control loop enters cleanup, whose
\* steps run in the order relays off, alarm silenced, network released, each
\* cleanup position having its next step enabled; when the program has
\* terminated through the interrupt, the relays and the buzzer are off and
\* what the shutdown did is exactly that sequence.
AllRelaysOff ==
    get_status = [light |-> FALSE, fan |-> FALSE, motor |-> FALSE, garden |-> FALSE]

ShutdownSequence ==
    <<Event("print_shutdown_initiated", 0, 0), Event("turn_off_all", 0, 0),
      Event("alarm_off", 0, 0)>>
    \o (IF MICROPYTHON THEN <<Event("wlan_active_false", 0, 0)>> ELSE <<>>)
    \o <<Event("print_shutdown_complete", 0, 0)>>

C11_InterruptRunsShutdownInOrder ==
    /\ pc = "cleanup_relays" => ENABLED cleanup_relays
    /\ pc = "cleanup_alarm" => (AllRelaysOff /\ ENABLED cleanup_alarm)
    /\ pc = "cleanup_wifi"
          => (AllRelaysOff /\ buzzer_state = 0 /\ ENABLED cleanup_wifi)
    /\ pc = "done"
          => /\ AllRelaysOff /\ buzzer_state = 0
             /\ MICROPYTHON => ~wlan_active
             /\ out = ShutdownSequence

\* C11 witness: the interrupt arrived with the buzzer sounding and the motor
\* overridden; the shutdown has run to its end.
C11_Witness ==
    /\ pc = "done" /\ out = ShutdownSequence
    /\ AllRelaysOff /\ buzzer_state = 0
    /\ loop_count > 1 /\ manual_override["garden"]

\* C12: the control loop is left only through the operator interrupt (a failure
\* raised inside a tick does not end it), and whenever the program has left the
\* loop for good the relays and the buzzer are off.
C12_OnlyInterruptEndsLoop ==
    [][/\ (pc \in LoopPcs /\ pc' \notin LoopPcs) => pc' = "cleanup_relays"
       /\ pc' \in {"done", "fatal"} => (AllRelaysOff' /\ buzzer_state' = 0)]_vars

\* C13: a gas or report step in which a telemetry request raised still moves
\* on inside the loop; every call that raised returned False; the relays are
\* untouched and the buzzer is what the step sets without the failure (on in
\* the gas step, which only pushes when gas was detected; unchanged in the
\* report step).
C13_TelemetryFailureContained ==
    [][(pc \in {"top", "report"} /\ pc' # pc /\ TelemetryFailed(out'))
          => /\ pc' = (IF pc = "top" THEN "garden" ELSE "sleep")
             /\ \A i \in 1..Len(out') :
                   out'[i].ev \in {"print_blynk_update_error",
                                   "print_blynk_event_log_error"}
                      => /\ i < Len(out')
                         /\ out'[i + 1].ev \in {"return_send_to_blynk",
                                                "return_log_event"}
                         /\ out'[i + 1].value = 0
             /\ UNCHANGED relayVars
             /\ pc = "top" => (buzzer_state' = 1 /\ is_alarming'
                               /\ gas_status'.detected)
             /\ pc = "report" => UNCHANGED buzzerVars]_vars

\* C13 witness: a tick has completed although a request of its periodic push
\* raised; the alarm is sounding and the motor runs.
C13_Witness ==
    /\ pc = "sleep" /\ TelemetryFailed(out)
    /\ is_alarming /\ get_status.motor

\* C14: while connected is false no request is in what a step did, a call of
\* send_to_blynk or log_event would return False without a request, and the
\* gas, garden and motor handling still set buzzer and relays from the tick's
\* samples exactly as they do when connected.
HttpRequests(seq) ==
    Count(seq, "http_update") + Count(seq, "http_logEvent_gas_alert")

C14_OfflineNoTelemetryLocalComplete ==
    ~connected
        => /\ HttpRequests(out) = 0
           /\ \A ok \in BOOLEAN :
                 /\ send_to_blynk(V_PIN_GAS_LEVEL, GAS_THRESHOLD, ok)
                       = <<Event("return_send_to_blynk", V_PIN_GAS_LEVEL, 0)>>
                 /\ log_event("gas_alert", ok) = <<Event("return_log_event", 0, 0)>>
           /\ pc = "garden"
                 => /\ (buzzer_state = 1) <=> (analog_value > threshold)
                    /\ is_alarming <=> (analog_value > threshold)
           /\ (pc = "tank" /\ ~manual_override["garden"])
                 => (get_status.garden <=> ldr_status.is_dark)
           /\ (pc = "report" /\ ~manual_override["motor"])
                 => (get_status.motor <=>
                       (~motor_reads.overhead_full /\ ~motor_reads.underground_empty))

\* C14 witness: on the hardware build with the network down, the fifth tick
\* (a push tick) has completed without any request, with the alarm sounding
\* and the garden light and the motor driven by the tick.
C14_Witness ==
    /\ MICROPYTHON /\ ~connected
    /\ pc = "sleep" /\ loop_count = TelemetryEvery
    /\ HttpRequests(out) = 0
    /\ is_alarming /\ get_status.garden /\ get_status.motor
    /\ ~manual_override["garden"] /\ ~manual_override["motor"]

\* C15: a manual control_* call with logical state s makes get_status report s
\* for that relay, writes the inverse physical level, leaves the other three
\* relays as they were, and repeating the call just made changes nothing.
ManualControlStep ==
    pc = "top" /\ pc' = "top" /\ manual_override' = manual_override

RelayOf(event) ==
    CASE event.ev = "print_light" -> "light"
      [] event.ev = "print_fan" -> "fan"
      [] event.ev = "print_motor" -> "motor"
      [] event.ev = "print_garden_light" -> "garden"

LevelOf ==
    [light |-> light_state, fan |-> fan_state,
     motor |-> motor_state, garden |-> garden_state]

C15_ControlThenStatus ==
    [][ManualControlStep
          => /\ Len(out') = 1
             /\ get_status'[RelayOf(out'[1])] = (out'[1].value = 1)
             /\ LevelOf'[RelayOf(out'[1])] = 1 - out'[1].value
             /\ \A r \in Appliances \ {RelayOf(out'[1])} : LevelOf'[r] = LevelOf[r]
             /\ out' = out => LevelOf' = LevelOf]_vars

\* C15 witness: the fan has just been commanded on while the light was on and
\* the motor off; the readback shows exactly that.
C15_Witness ==
    /\ pc = "top" /\ out = <<RelayPrint("fan", TRUE)>>
    /\ get_status.fan /\ fan_state = 0
    /\ get_status.light /\ ~get_status.motor

\* C16: every gas status a tick works from is self-consistent: its detected
\* field equals (its analog field > threshold).
C16_GasStatusOneSample ==
    pc = "garden" => (gas_status.detected <=> (gas_status.analog > threshold))

\* C17: what each handler sets is a function of its own inputs only.  The gas
\* step sets buzzer and latch from the gas sample alone and touches no relay
\* and no override flag; the garden and tank steps set their relay from the
\* override flag, the previous level and their own samples, and touch neither
\* the buzzer nor the latch; the report and sleep steps touch none of them.
\* Hence two runs that agree on the gas samples agree on buzzer and latch after
\* every tick, and the motor and garden relays never depend on gas or alarm.
C17_GasAndAppliancesIndependent ==
    [][/\ GasStep
          => /\ is_alarming' = (analog_value' > threshold)
             /\ buzzer_state' = (IF analog_value' > threshold THEN 1 ELSE 0)
             /\ UNCHANGED <<relayVars, manual_override>>
       /\ GardenStep
          => /\ IF manual_override["garden"]
                  THEN garden_state' = garden_state
                  ELSE get_status'.garden = ldr_status'.is_dark
             /\ UNCHANGED <<light_state, fan_state, motor_state, buzzerVars,
                            manual_override>>
       /\ TankStep
          => /\ IF manual_override["motor"]
                  THEN motor_state' = motor_state
                  ELSE get_status'.motor = (/\ ~motor_reads'.overhead_full
                                            /\ ~motor_reads'.underground_empty)
             /\ UNCHANGED <<light_state, fan_state, garden_state, buzzerVars,
                            manual_override>>
       /\ (LoopStep /\ pc \in {"report", "sleep"})
          => UNCHANGED <<relayVars, buzzerVars, manual_override>>]_vars

\* C17 witness: the alarm is sounding and the tank handling, not overridden,
\* has just started the motor from its own samples.
C17_Witness ==
    /\ pc = "report" /\ is_alarming /\ buzzer_state = 1
    /\ ~manual_override["motor"] /\ get_status.motor
    /\ ~motor_reads.overhead_full /\ ~motor_reads.underground_empty

\* C18 (as amended): the steps of a tick follow each other in the order gas,
\* garden, tank, report, sleep; the report step pushes the three metrics
\* exactly when connected and the tick count is a multiple of 5 and prints
\* the status exactly when it is a multiple of 10; apart from that the only
\* requests are the gas-alert push and log event of a gas step that detected
\* gas while connected.
TickOrder ==
    LoopStep => /\ pc = "top" => (pc' = "garden" /\ loop_count' = loop_count + 1)
                /\ pc = "garden" => pc' = "tank"
                /\ pc = "tank" => pc' = "report"
                /\ pc = "report" => pc' = "sleep"
                /\ pc = "sleep" => pc' = "top"
                /\ pc # "top" => loop_count' = loop_count

ReportCadence ==
    (LoopStep /\ pc = "report")
        => /\ Count(out', "http_update")
                = (IF connected /\ loop_count % TelemetryEvery = 0 THEN 3 ELSE 0)
           /\ Count(out', "print_system_status")
                = (IF loop_count % StatusEvery = 0 THEN 1 ELSE 0)
           /\ Count(out', "http_logEvent_gas_alert") = 0

C19_WarmupOnceThresholdFixed ==
    [][/\ threshold = GAS_THRESHOLD /\ threshold' = GAS_THRESHOLD
       /\ pc' \in LoopPcs => (warmup_complete' /\ calibration_value' \in GasLevels)
       /\ warmup_complete => UNCHANGED <<warmup_complete, calibration_value>>
       /\ (~warmup_complete /\ warmup_complete') => (pc = "warmup" /\ pc' = "wifi")
       /\ pc' # "warmup"]_vars

\* C19 witness: a tick runs with a recorded baseline above the threshold, the
\* threshold unchanged, and a reading at the threshold is still normal.
C19_Witness ==
    /\ pc = "garden" /\ gas_status.warmup_complete /\ warmup_complete
    /\ calibration_value > GAS_THRESHOLD /\ threshold = GAS_THRESHOLD
    /\ analog_value = GAS_THRESHOLD /\ ~gas_status.detected

\* C20: when __init__ returns after the last beep and the loop is about to
\* start, the four relays are off, the buzzer is off, the latch is clear, no
\* override flag is set and no tick has been counted.
C20_FirstTickStartsAllOff ==
    [][(pc = "beep_off" /\ pc' = "top")
          => /\ AllRelaysOff' /\ buzzer_state' = 0 /\ ~is_alarming'
             /\ \A a \in Appliances : ~manual_override'[a]
             /\ loop_count' = 0 /\ beep_i' = BeepCount]_vars

\* C20 witness: the connected hardware build stands at the top of the loop
\* before its first tick, after both beeps, with everything off.
C20_Witness ==
    /\ pc = "top" /\ loop_count = 0 /\ beep_i = BeepCount
    /\ MICROPYTHON /\ connected /\ warmup_complete
    /\ AllRelaysOff /\ buzzer_state = 0 /\ ~is_alarming
    /\ \A a \in Appliances : ~manual_override[a]
    /\ out = <<>>

\* C21: in every state between two operations of the buzzer controller the
\* latch is set exactly when the buzzer output is driven on.
C21_LatchMatchesBuzzer ==
    /\ buzzer_state \in {0, 1}
    /\ is_alarming <=> (buzzer_state = 1)

\* C21 witness: the second beep of the ready signal is sounding, after one
\* complete on/off pass: output on and latch set.
C21_Witness ==
    /\ pc = "beep_off" /\ beep_i = 1
    /\ buzzer_state = 1 /\ is_alarming

\* C22: the can_run_motor field of a tank status equals what its own
\* overhead_full and underground_empty fields give.
C22_TankStatusSelfConsistent ==
    tank_status # None
        => (tank_status.can_run_motor
              = (~tank_status.overhead_full /\ ~tank_status.underground_empty))

\* C23: a program ended by an interrupt during startup has the buzzer off,
\* the latch clear and all four relays off.
C23_StartupInterruptAllOff ==
    pc = "interrupted" => (buzzer_state = 0 /\ ~is_alarming /\ AllRelaysOff)

\* C24: connect_wifi terminates.  The wait starts with 30 polls left only when
\* the interface is not connected; each pass uses one up; in the wait exactly one
\* of "poll again" and "leave" is possible, polling only while the interface is
\* not connected and polls are left; on return the flag is what the interface
\* reported at the final check (false in the simulation build, which has no
\* interface), a return without connection happens only with no poll left, and
\* startup goes on to the ready signal.
C24_ConnectWifiTerminates ==
    [][/\ pc = "wifi_wait"
          => /\ timeout \in 0..WifiTimeout
             /\ (ENABLED connect_wifi_poll) <=> (~wlan_isconnected /\ timeout > 0)
             /\ (ENABLED connect_wifi_done) <=> (wlan_isconnected \/ timeout = 0)
       /\ (pc = "wifi" /\ pc' = "wifi_wait")
          => (timeout' = WifiTimeout /\ ~wlan_isconnected /\ MICROPYTHON)
       /\ (pc = "wifi_wait" /\ pc' = "wifi_wait")
          => (timeout' = timeout - 1 /\ timeout' >= 0)
       /\ (pc \in {"wifi", "wifi_wait"} /\ pc' \notin {"wifi", "wifi_wait", "interrupted"})
          => /\ pc' = "beep_on"
             /\ connected' = (MICROPYTHON /\ wlan_isconnected)
             /\ wlan_isconnected' = wlan_isconnected
             /\ (pc = "wifi_wait" /\ ~wlan_isconnected) => timeout = 0]_vars

\* C24 witness: the interface never connected, the wait ran out, and startup
\* has gone on through the ready signal into the loop in offline mode.
C24_Witness ==
    /\ MICROPYTHON /\ wlan_active /\ ~wlan_isconnected /\ ~connected
    /\ pc = "top" /\ loop_count = 0 /\ beep_i = BeepCount

====
